---- MODULE Spec2Model ----
(***************************************************************************)
(* Controlled-entity index and client lifecycle of the lightyear server    *)
(* (lightyear/src/server/clients.rs) together with the authority hand-off  *)
(* systems of the distributed_authority example                            *)
(* (examples/distributed_authority/src/server.rs).                         *)
(*                                                                         *)
(* One frame of the server app is the stage sequence                       *)
(*   PreUpdate -> Update -> PostUpdate -> Last -> Apply -> PreUpdate ...   *)
(* PreUpdate with an empty command queue is the tick boundary.             *)
(***************************************************************************)
EXTENDS Integers, Sequences, FiniteSets, TLC

\* ------------------------------------------------------------------ bounds
\* Number of entity ids the world can hand out (ids are never reused).
MaxObjects == 2

\* Client ids that may connect.
Peers == {"A", "B"}

Objects == 1..MaxObjects

\* Number of ControlledBy components the application writes directly (spawns
\* and later changes) in one run.
MaxWrites == 2

\* Transfers an external policy may queue in one frame besides the proximity
\* system's own.
MaxTransfers == 1

\* player_pos.distance(ball_pos) < 100.0
AuthorityRange == 100

\* Distances a player can be at: inside the range, on its edge, and where a
\* player spawns (Vec2::ZERO against the ball's (300, 0)).
SpawnDist == 300
Dists == {80, AuthorityRange, SpawnDist}

NoPlayer == "NoPlayer"

\* The entity init() spawns with BallMarker; player entities are 1..MaxObjects.
Ball == 0

\* AuthorityPeer
Server == [kind |-> "Server", id |-> "-"]
Unclaimed == [kind |-> "None", id |-> "-"]
Client(p) == [kind |-> "Client", id |-> p]
AuthorityPeers == {Server, Unclaimed} \cup {Client(p) : p \in Peers}
NoTransfer == [kind |-> "NoTransfer", id |-> "-"]

\* ---------------------------------------------------------- NetworkTarget
NoComp == [kind |-> "NoComp", ids |-> <<>>]
TNone == [kind |-> "None", ids |-> <<>>]
TAll == [kind |-> "All", ids |-> <<>>]
Single(p) == [kind |-> "Single", ids |-> <<p>>]
Only(s) == [kind |-> "Only", ids |-> s]
AllExceptSingle(p) == [kind |-> "AllExceptSingle", ids |-> <<p>>]

\* The ControlledBy targets the application assigns.  Only carries a Vec of
\* client ids, so a client id may be listed twice.
Targets ==
    {TNone, TAll}
        \cup {Single(p) : p \in Peers}
        \cup {Only(<<p, q>>) : p \in Peers, q \in Peers}
        \cup {AllExceptSingle(p) : p \in Peers}

VARIABLES
    stage,      \* schedule position within the frame
    roster,     \* ConnectionManager: client ids with a live connection
    hasRecord,  \* client ids whose client entity (bookkeeping record) exists
    controlled, \* ControlledEntities of each client entity
    spawned,    \* number of entity ids handed out so far
    alive,      \* entities that currently exist
    target,     \* ControlledBy.target of each entity (NoComp: no component)
    changed,    \* entities matched by Changed<ControlledBy>
    events,     \* DisconnectEvents not yet read by handle_client_disconnect
    cmds,       \* deferred Commands queued by handle_client_disconnect
    panicked,   \* a system panicked: the app is gone
    sig,        \* per client: DerefMut accesses of ControlledEntities in the last step
    resolved,   \* per entity: the clients the last bookkeeping run resolved it to
    assigns,    \* per entity: how often ControlledBy was set (saturates at 2)
    newborn,    \* entities spawned in the current frame
    cascPeers,  \* clients with a record whose DisconnectEvent was read this frame
    cascObjs,   \* per such client: its ControlledEntities when the event was read
    connects,   \* ConnectEvents not yet read by handle_connections
    playerId,   \* PlayerId of each entity (NoPlayer: no such component)
    dist,       \* distance of each player entity's Position from the ball's
    ballOwner,  \* AuthorityPeer of the ball
    authChanged,\* Changed<AuthorityPeer> of the ball, as update_ball_color sees it
    authCmds,   \* transfer_authority commands queued in Update
    ballColor,  \* PlayerColor of the ball
    notes,      \* authority-changed notifications (old, new) of this frame
    dirty,      \* the ball's owner value changed since update_ball_color last ran
    painted,    \* the body of update_ball_color ran in this frame
    lastIssued, \* owner named by the last transfer issued in this frame
    writes,     \* ControlledBy components the application has written so far
    departed,   \* client ids whose client entity was despawned and that have not reconnected
    callee,     \* {entity} the last transfer_authority call of this frame was made on
    decided     \* owner the proximity system named in this frame

ctrlVars ==
    <<stage, roster, hasRecord, controlled, spawned, alive, target, changed,
      events, cmds, panicked, sig, resolved, assigns, newborn, cascPeers,
      cascObjs>>

authVars ==
    <<connects, playerId, dist, ballOwner, authChanged, authCmds, ballColor,
      notes, dirty, painted, lastIssued>>

ghostVars == <<departed, callee, decided>>

vars == <<ctrlVars, authVars, writes, ghostVars>>

NoSig == [p \in Peers |-> 0]

\* ----------------------------------------------------------------- helpers
RECURSIVE SetToSeq(_)
SetToSeq(S) ==
    IF S = {} THEN <<>>
    ELSE LET x == CHOOSE y \in S : TRUE IN <<x>> \o SetToSeq(S \ {x})

Range(s) == {s[i] : i \in 1..Len(s)}

\* sender.client_entity(client_id) is Ok and the client entity still carries
\* ControlledEntities.
ClientEntityOk(c) == c \in roster /\ c \in hasRecord

\* Variant of UpdateInsert without the contains() test before insert().
UpdateInsert_NoContainsCheck(st, e, c) ==
    IF ClientEntityOk(c)
    THEN [ce |-> [st.ce EXCEPT ![c] = @ \cup {e}],
          sg |-> [st.sg EXCEPT ![c] = @ + 1]]
    ELSE st

\* The closure update_controlled_entities of handle_controlled_by_update.
UpdateInsert(st, e, c) ==
    IF ClientEntityOk(c)
    THEN IF e \in st.ce[c]
         THEN st
         ELSE [ce |-> [st.ce EXCEPT ![c] = @ \cup {e}],
               sg |-> [st.sg EXCEPT ![c] = @ + 1]]
    ELSE st

\* The closure update_controlled_entities of handle_controlled_by_remove.
UpdateRemove(st, e, c) ==
    IF ClientEntityOk(c)
    THEN IF e \notin st.ce[c]
         THEN st
         ELSE [ce |-> [st.ce EXCEPT ![c] = @ \ {e}],
               sg |-> [st.sg EXCEPT ![c] = @ + 1]]
    ELSE st

\* Variant of FanOut whose Single arm is missing, so Single falls through to
\* the catch-all arm.
FanOut_SingleFallsThrough(t) ==
    CASE t.kind = "None" -> <<>>
      [] t.kind = "Only" -> t.ids
      [] t.kind = "NoComp" -> <<>>
      [] OTHER -> SetToSeq(roster)

\* The client ids one match arm iterates, in order.
FanOut(t) ==
    CASE t.kind = "None" -> <<>>
      [] t.kind = "Single" -> t.ids
      [] t.kind = "Only" -> t.ids
      [] t.kind = "NoComp" -> <<>>
      [] OTHER -> SetToSeq(roster)

\* Variant of InsertEach that gives up at the first client id without a
\* client entity.
RECURSIVE InsertEach_StopAtMissing(_, _, _)
InsertEach_StopAtMissing(st, e, cs) ==
    IF cs = <<>> \/ ~ClientEntityOk(Head(cs)) THEN st
    ELSE InsertEach_StopAtMissing(UpdateInsert(st, e, Head(cs)), e, Tail(cs))

\* for_each over the client ids of one match arm.
RECURSIVE InsertEach(_, _, _)
InsertEach(st, e, cs) ==
    IF cs = <<>> THEN st
    ELSE InsertEach(UpdateInsert(st, e, Head(cs)), e, Tail(cs))

RECURSIVE RemoveEach(_, _, _)
RemoveEach(st, e, cs) ==
    IF cs = <<>> THEN st
    ELSE RemoveEach(UpdateRemove(st, e, Head(cs)), e, Tail(cs))

\* Variant of ChangedQuery without the Changed<ControlledBy> filter.
ChangedQuery_NoFilter == {e \in alive : target[e] # NoComp}

\* The entities handle_controlled_by_update visits.
ChangedQuery == changed

RECURSIVE UpdateAll(_, _)
UpdateAll(st, es) ==
    IF es = {} THEN st
    ELSE LET e == CHOOSE x \in es : TRUE
         IN UpdateAll(InsertEach(st, e, FanOut(target[e])), es \ {e})

\* Variant of ObservedTarget in which the observer runs after the component
\* is gone, so query.get(entity) fails.
ObservedTarget_AfterRemoval(e) == NoComp

\* The ControlledBy the OnRemove observer reads: the observer runs before the
\* component is taken away.
ObservedTarget(e) == target[e]

\* handle_controlled_by_remove for entity e.
RemoveHook(st, e) == RemoveEach(st, e, FanOut(ObservedTarget(e)))

\* ------------------------------------------------------------------- Init
Init ==
    /\ writes = 0
    /\ stage = "PreUpdate"
    /\ roster = {}
    /\ hasRecord = {}
    /\ controlled = [p \in Peers |-> {}]
    /\ spawned = 0
    /\ alive = {}
    /\ target = [e \in Objects |-> NoComp]
    /\ changed = {}
    /\ events = <<>>
    /\ cmds = <<>>
    /\ panicked = FALSE
    /\ sig = NoSig
    /\ resolved = [e \in Objects |-> {}]
    /\ assigns = [e \in Objects |-> 0]
    /\ newborn = {}
    /\ cascPeers = {}
    /\ cascObjs = [p \in Peers |-> {}]
    /\ connects = {}
    /\ playerId = [e \in Objects |-> NoPlayer]
    /\ dist = [e \in Objects |-> SpawnDist]
    /\ ballOwner = Server
    /\ authChanged = TRUE
    /\ authCmds = <<>>
    /\ ballColor = "WHITE"
    /\ notes = <<>>
    /\ dirty = TRUE
    /\ painted = FALSE
    /\ lastIssued = NoTransfer
    /\ departed = {}
    /\ callee = {}
    /\ decided = NoTransfer

Bump(n) == IF n >= 2 THEN 2 ELSE n + 1

\* ------------------------------------------------------------- PreUpdate
\* The network receive system: new connections get a client entity with an
\* empty ControlledEntities; finished connections leave the ConnectionManager
\* and a DisconnectEvent carrying the client entity is written.
ReceiveEvents(cs, ds, next) ==
    /\ stage = "PreUpdate" /\ ~panicked
    /\ UNCHANGED writes
    /\ departed' = departed \ cs
    /\ callee' = {}
    /\ decided' = NoTransfer
    /\ cs \subseteq Peers \ hasRecord
    /\ ds \subseteq roster
    /\ roster' = (roster \ ds) \cup cs
    /\ hasRecord' = hasRecord \cup cs
    /\ controlled' = [p \in Peers |-> IF p \in cs THEN {} ELSE controlled[p]]
    /\ events' = SetToSeq(ds)
    /\ stage' = next
    /\ sig' = NoSig
    /\ newborn' = {}
    /\ cascPeers' = {}
    /\ cascObjs' = [p \in Peers |-> {}]
    /\ notes' = <<>>
    /\ painted' = FALSE
    /\ lastIssued' = NoTransfer
    /\ UNCHANGED <<spawned, alive, target, changed, cmds, panicked, resolved, assigns>>
    /\ UNCHANGED <<playerId, dist, ballOwner, authChanged, authCmds, ballColor, dirty>>

\* A frame of the server without the example's systems.
Receive ==
    /\ \E cs \in SUBSET Peers, ds \in SUBSET Peers : ReceiveEvents(cs, ds, "Update")
    /\ UNCHANGED connects

\* A DisconnectEvent is delivered once more for a client whose client entity
\* the cascade of an earlier frame has despawned.
ReceiveRepeated ==
    /\ stage = "PreUpdate" /\ ~panicked
    /\ UNCHANGED writes
    /\ UNCHANGED departed
    /\ \E p \in departed : events' = <<p>>
    /\ stage' = "Update"
    /\ callee' = {}
    /\ decided' = NoTransfer
    /\ sig' = NoSig
    /\ newborn' = {}
    /\ cascPeers' = {}
    /\ cascObjs' = [p \in Peers |-> {}]
    /\ notes' = <<>>
    /\ painted' = FALSE
    /\ lastIssued' = NoTransfer
    /\ UNCHANGED <<roster, hasRecord, controlled, spawned, alive, target, changed,
                   cmds, panicked, resolved, assigns>>
    /\ UNCHANGED <<connects, playerId, dist, ballOwner, authChanged, authCmds,
                   ballColor, dirty>>

\* ---------------------------------------------------------------- Update
\* world.spawn((Replicate::default(), ControlledBy { target }))
Spawn ==
    /\ stage = "Update" /\ ~panicked
    /\ writes < MaxWrites
    /\ writes' = writes + 1
    /\ UNCHANGED ghostVars
    /\ UNCHANGED authVars
    /\ UNCHANGED <<cascPeers, cascObjs>>
    /\ spawned < MaxObjects
    /\ \E t \in Targets :
        LET e == spawned + 1 IN
        /\ spawned' = e
        /\ alive' = alive \cup {e}
        /\ target' = [target EXCEPT ![e] = t]
        /\ changed' = changed \cup {e}
        /\ assigns' = [assigns EXCEPT ![e] = 1]
        /\ newborn' = newborn \cup {e}
    /\ sig' = NoSig
    /\ UNCHANGED <<stage, roster, hasRecord, controlled, events, cmds, panicked, resolved>>

\* The application writes a new ControlledBy, one of ts, on an existing entity.
SetTargetTo(ts) ==
    /\ stage = "Update" /\ ~panicked
    /\ writes < MaxWrites
    /\ writes' = writes + 1
    /\ UNCHANGED ghostVars
    /\ UNCHANGED authVars
    /\ UNCHANGED <<cascPeers, cascObjs>>
    /\ \E e \in alive, t \in ts :
        /\ target' = [target EXCEPT ![e] = t]
        /\ changed' = changed \cup {e}
        /\ assigns' = [assigns EXCEPT ![e] = Bump(@)]
    /\ sig' = NoSig
    /\ UNCHANGED <<stage, roster, hasRecord, controlled, spawned, alive, events,
                   cmds, panicked, resolved, newborn>>

SetTarget == SetTargetTo(Targets)

\* The application hands the control of an entity to a client ("control goes
\* from client 1 to client 2").
HandOver == SetTargetTo({Single(q) : q \in Peers})

\* Variant of ClearTarget in which removing the ControlledBy of an entity also
\* hands the ball back to the server.
ClearTarget_ReleasesAuthority ==
    /\ stage = "Update" /\ ~panicked
    /\ UNCHANGED writes
    /\ UNCHANGED ghostVars
    /\ UNCHANGED <<cascPeers, cascObjs>>
    /\ \E e \in alive :
        /\ target[e] # NoComp
        /\ LET st == RemoveHook([ce |-> controlled, sg |-> NoSig], e) IN
            /\ controlled' = st.ce
            /\ sig' = st.sg
        /\ target' = [target EXCEPT ![e] = NoComp]
        /\ changed' = changed \ {e}
        /\ resolved' = [resolved EXCEPT ![e] = {}]
    /\ ballOwner' = Server
    /\ authChanged' = TRUE
    /\ UNCHANGED <<stage, roster, hasRecord, spawned, alive, events, cmds,
                   panicked, assigns, newborn>>
    /\ UNCHANGED <<connects, playerId, dist, authCmds, ballColor, notes, dirty,
                   painted, lastIssued>>

\* The application removes ControlledBy from an entity: the OnRemove observer
\* runs, then the component goes.
ClearTarget ==
    /\ stage = "Update" /\ ~panicked
    /\ UNCHANGED writes
    /\ UNCHANGED ghostVars
    /\ UNCHANGED authVars
    /\ UNCHANGED <<cascPeers, cascObjs>>
    /\ \E e \in alive :
        /\ target[e] # NoComp
        /\ LET st == RemoveHook([ce |-> controlled, sg |-> NoSig], e) IN
            /\ controlled' = st.ce
            /\ sig' = st.sg
        /\ target' = [target EXCEPT ![e] = NoComp]
        /\ changed' = changed \ {e}
        /\ resolved' = [resolved EXCEPT ![e] = {}]
    /\ UNCHANGED <<stage, roster, hasRecord, spawned, alive, events, cmds,
                   panicked, assigns, newborn>>

\* world.despawn(e): OnRemove observers of its components run, then it goes.
DespawnEntity(st, e) ==
    IF e \in alive /\ target[e] # NoComp THEN RemoveHook(st, e) ELSE st

Despawn ==
    /\ stage = "Update" /\ ~panicked
    /\ UNCHANGED writes
    /\ UNCHANGED ghostVars
    /\ UNCHANGED <<cascPeers, cascObjs>>
    /\ \E e \in alive :
        /\ LET st == DespawnEntity([ce |-> controlled, sg |-> NoSig], e) IN
            /\ controlled' = st.ce
            /\ sig' = st.sg
        /\ alive' = alive \ {e}
        /\ target' = [target EXCEPT ![e] = NoComp]
        /\ changed' = changed \ {e}
        /\ resolved' = [resolved EXCEPT ![e] = {}]
        /\ playerId' = [playerId EXCEPT ![e] = NoPlayer]
        /\ dist' = [dist EXCEPT ![e] = SpawnDist]
    /\ UNCHANGED <<stage, roster, hasRecord, spawned, events, cmds, panicked,
                   assigns, newborn>>
    /\ UNCHANGED <<connects, ballOwner, authChanged, authCmds, ballColor, notes,
                   dirty, painted, lastIssued>>

EndUpdate ==
    /\ stage = "Update" /\ ~panicked
    /\ UNCHANGED writes
    /\ UNCHANGED ghostVars
    /\ UNCHANGED authVars
    /\ UNCHANGED <<cascPeers, cascObjs>>
    /\ stage' = "PostUpdate"
    /\ sig' = NoSig
    /\ UNCHANGED <<roster, hasRecord, controlled, spawned, alive, target, changed,
                   events, cmds, panicked, resolved, assigns, newborn>>

\* ------------------------------------------------------------ PostUpdate
\* handle_controlled_by_update, in InternalReplicationSet::BeforeBuffer.
HandleControlledByUpdate ==
    /\ stage = "PostUpdate" /\ ~panicked
    /\ UNCHANGED writes
    /\ UNCHANGED ghostVars
    /\ UNCHANGED authVars
    /\ UNCHANGED <<cascPeers, cascObjs>>
    /\ LET st == UpdateAll([ce |-> controlled, sg |-> NoSig], ChangedQuery) IN
        /\ controlled' = st.ce
        /\ sig' = st.sg
        /\ resolved' =
            [e \in Objects |->
                IF e \in ChangedQuery
                THEN {p \in Peers : ClientEntityOk(p) /\ p \in Range(FanOut(target[e]))}
                ELSE resolved[e]]
    /\ changed' = {}
    /\ stage' = "Last"
    /\ UNCHANGED <<roster, hasRecord, spawned, alive, target, events, cmds,
                   panicked, assigns, newborn>>

\* ------------------------------------------------------------------ Last
\* commands.entity(e) panics when e does not exist.
DespawnCmd(kind, id) == [kind |-> kind, id |-> id]

\* Variant of EventCommands that despawns the client entity only.
EventCommands_ClientOnly(c) == <<DespawnCmd("client", c)>>

\* The commands one DisconnectEvent queues, in order.
EventCommands(c) ==
    (IF c \in hasRecord
     THEN [i \in 1..Cardinality(controlled[c]) |->
              DespawnCmd("entity", SetToSeq(controlled[c])[i])]
     ELSE <<>>)
    \o <<DespawnCmd("client", c)>>

\* Does handling the event reach a commands.entity() on a missing entity?
EventPanics(c) ==
    \/ c \in hasRecord /\ \E e \in controlled[c] : e \notin alive
    \/ c \notin hasRecord

\* Variant of AllCommands that handles only the last event read.
AllCommands_LastEventOnly(evs) ==
    IF evs = <<>> THEN <<>> ELSE EventCommands(evs[Len(evs)])

RECURSIVE AllCommands(_)
AllCommands(evs) ==
    IF evs = <<>> THEN <<>>
    ELSE EventCommands(Head(evs)) \o AllCommands(Tail(evs))

\* handle_client_disconnect, in Last.
HandleClientDisconnect ==
    /\ stage = "Last" /\ ~panicked
    /\ UNCHANGED writes
    /\ UNCHANGED ghostVars
    /\ UNCHANGED authVars
    /\ cascPeers' = Range(events) \cap hasRecord
    /\ cascObjs' = [p \in Peers |-> IF p \in Range(events) \cap hasRecord
                                     THEN controlled[p] ELSE {}]
    /\ IF \E i \in 1..Len(events) : EventPanics(events[i])
       THEN /\ panicked' = TRUE
            /\ UNCHANGED <<stage, cmds, events>>
       ELSE /\ cmds' = AllCommands(events)
            /\ events' = <<>>
            /\ stage' = "Apply"
            /\ UNCHANGED panicked
    /\ sig' = NoSig
    /\ UNCHANGED <<roster, hasRecord, controlled, spawned, alive, target, changed,
                   resolved, assigns, newborn>>

\* ----------------------------------------------------------------- Apply
\* The deferred commands run in the order they were queued.
ApplyCommand ==
    /\ stage = "Apply" /\ ~panicked
    /\ UNCHANGED writes
    /\ UNCHANGED <<callee, decided>>
    /\ UNCHANGED <<cascPeers, cascObjs>>
    /\ cmds # <<>>
    /\ LET c == Head(cmds) IN
        IF c.kind = "entity"
        THEN /\ LET st == DespawnEntity([ce |-> controlled, sg |-> NoSig], c.id) IN
                /\ controlled' = st.ce
                /\ sig' = st.sg
             /\ alive' = alive \ {c.id}
             /\ target' = [target EXCEPT ![c.id] = NoComp]
             /\ changed' = changed \ {c.id}
             /\ resolved' = [resolved EXCEPT ![c.id] = {}]
             /\ playerId' = [playerId EXCEPT ![c.id] = NoPlayer]
             /\ dist' = [dist EXCEPT ![c.id] = SpawnDist]
             /\ UNCHANGED <<hasRecord, departed>>
        ELSE /\ hasRecord' = hasRecord \ {c.id}
             /\ departed' = IF c.id \in hasRecord THEN departed \cup {c.id} ELSE departed
             /\ controlled' = [controlled EXCEPT ![c.id] = {}]
             /\ sig' = NoSig
             /\ UNCHANGED <<alive, target, changed, resolved, playerId, dist>>
    /\ UNCHANGED <<connects, ballOwner, authChanged, authCmds, ballColor, notes,
                   dirty, painted, lastIssued>>
    /\ cmds' = Tail(cmds)
    /\ UNCHANGED <<stage, roster, spawned, events, panicked, assigns, newborn>>

EndFrame ==
    /\ stage = "Apply" /\ ~panicked
    /\ UNCHANGED writes
    /\ UNCHANGED ghostVars
    /\ UNCHANGED authVars
    /\ UNCHANGED <<cascPeers, cascObjs>>
    /\ cmds = <<>>
    /\ stage' = "PreUpdate"
    /\ sig' = NoSig
    /\ UNCHANGED <<roster, hasRecord, controlled, spawned, alive, target, changed,
                   events, cmds, panicked, resolved, assigns, newborn>>

Next ==
    \/ Receive
    \/ ReceiveRepeated
    \/ Spawn
    \/ SetTarget
    \/ ClearTarget
    \/ Despawn
    \/ EndUpdate
    \/ HandleControlledByUpdate
    \/ HandleClientDisconnect
    \/ ApplyCommand
    \/ EndFrame

Spec == Init /\ [][Next]_vars


\* ------------------------------------------------- the example's frame
\* A frame of the example server: every new connection is also a ConnectEvent
\* for handle_connections, which needs a free entity id for the player.
ReceiveApp ==
    /\ \E cs \in SUBSET Peers, ds \in SUBSET Peers :
        /\ spawned + Cardinality(cs) <= MaxObjects
        /\ ReceiveEvents(cs, ds, "FixedUpdate")
        /\ connects' = cs

\* NetworkTarget::targets(client_id)
ControlledByTargets(t, c) ==
    CASE t.kind = "Single" -> t.ids[1] = c
      [] t.kind = "Only" -> c \in Range(t.ids)
      [] t.kind = "All" -> TRUE
      [] t.kind = "AllExceptSingle" -> t.ids[1] # c
      [] OTHER -> FALSE

\* movement, in FixedUpdate: an input of a connected client moves the player
\* entities that client controls.
Movement ==
    /\ stage = "FixedUpdate" /\ ~panicked
    /\ UNCHANGED writes
    /\ UNCHANGED ghostVars
    /\ \E c \in roster, d \in Dists :
        dist' = [e \in Objects |->
                    IF e \in alive /\ playerId[e] # NoPlayer
                        /\ ControlledByTargets(target[e], c)
                    THEN d ELSE dist[e]]
    /\ UNCHANGED ctrlVars
    /\ UNCHANGED <<connects, playerId, ballOwner, authChanged, authCmds, ballColor,
                   notes, dirty, painted, lastIssued>>

EndFixedUpdate ==
    /\ stage = "FixedUpdate" /\ ~panicked
    /\ UNCHANGED writes
    /\ UNCHANGED ghostVars
    /\ stage' = "Update"
    /\ UNCHANGED <<roster, hasRecord, controlled, spawned, alive, target, changed,
                   events, cmds, panicked, sig, resolved, assigns, newborn,
                   cascPeers, cascObjs>>
    /\ UNCHANGED authVars

\* Variant of EntityCommandsOk in which commands.entity() does not look the
\* entity up.
EntityCommandsOk_Unchecked(x) == TRUE

\* commands.entity(x) returns EntityCommands only for an existing entity.
EntityCommandsOk(x) == x = Ball \/ x \in alive

\* Query<&AuthorityPeer>::get(x) fails on an entity that does not exist.
QueryError == [kind |-> "QueryEntityError", id |-> "-"]

\* The AuthorityPeer an owner query reads: the ball's changes by transfer, a
\* player keeps the one Replicate's default gave it.
CurrentOwner(x) ==
    IF x = Ball THEN ballOwner
    ELSE IF x \in alive THEN Server
    ELSE QueryError

\* Some other caller of transfer_authority in this frame.
PolicyTransfer ==
    /\ stage \in {"Update", "Color"} /\ ~panicked
    /\ UNCHANGED writes
    /\ UNCHANGED <<departed, decided>>
    /\ callee' = {Ball}
    /\ Len(authCmds) < MaxTransfers
    /\ \E o \in AuthorityPeers :
        /\ authCmds' = Append(authCmds, o)
        /\ lastIssued' = o
    /\ UNCHANGED ctrlVars
    /\ UNCHANGED <<connects, playerId, dist, ballOwner, authChanged, ballColor,
                   notes, dirty, painted>>

\* A caller of transfer_authority that holds the id of an entity that does
\* not exist (never spawned, or despawned since).
TransferUnknown ==
    /\ stage \in {"Update", "Color"} /\ ~panicked
    /\ UNCHANGED writes
    /\ UNCHANGED <<departed, decided>>
    /\ \E x \in Objects \ alive :
        /\ callee' = {x}
        /\ IF EntityCommandsOk(x)
           THEN /\ Len(authCmds) < MaxTransfers
                /\ \E o \in AuthorityPeers :
                    /\ authCmds' = Append(authCmds, o)
                    /\ lastIssued' = o
                /\ UNCHANGED panicked
           ELSE /\ panicked' = TRUE
                /\ UNCHANGED <<authCmds, lastIssued>>
    /\ UNCHANGED <<stage, roster, hasRecord, controlled, spawned, alive, target,
                   changed, events, cmds, sig, resolved, assigns, newborn,
                   cascPeers, cascObjs>>
    /\ UNCHANGED <<connects, playerId, dist, ballOwner, authChanged, ballColor,
                   notes, dirty, painted>>

\* Variant of NearPlayers that counts a player on the edge of the range.
NearPlayers_Inclusive ==
    {e \in alive : playerId[e] # NoPlayer /\ dist[e] <= AuthorityRange}

\* The players transfer_authority finds within range of the ball.
NearPlayers == {e \in alive : playerId[e] # NoPlayer /\ dist[e] < AuthorityRange}

\* What one run of transfer_authority queues once its timer has finished: the
\* first player in range the query yields, else the server.
Decisions ==
    IF NearPlayers # {}
    THEN {Client(playerId[e]) : e \in NearPlayers}
    ELSE {Server}

\* transfer_authority, in Update.
TransferAuthority ==
    /\ stage = "Update" /\ ~panicked
    /\ UNCHANGED writes
    /\ UNCHANGED departed
    /\ \E finished \in BOOLEAN :
        IF finished
        THEN \E o \in Decisions :
                /\ authCmds' = Append(authCmds, o)
                /\ lastIssued' = o
                /\ decided' = o
                /\ callee' = {Ball}
        ELSE UNCHANGED <<authCmds, lastIssued, decided, callee>>
    /\ stage' = "Color"
    /\ UNCHANGED <<roster, hasRecord, controlled, spawned, alive, target, changed,
                   events, cmds, panicked, sig, resolved, assigns, newborn,
                   cascPeers, cascObjs>>
    /\ UNCHANGED <<connects, playerId, dist, ballOwner, authChanged, ballColor,
                   notes, dirty, painted>>

\* Variant of BallQuery without the Changed<AuthorityPeer> filter.
BallQuery_NoChangedFilter == TRUE

\* Does the ball match (With<BallMarker>, Changed<AuthorityPeer>)?
BallQuery == authChanged

\* The colour update_ball_color paints for an owner.
Repaint(owner) ==
    CASE owner.kind = "Server" -> "WHITE"
      [] owner.kind = "Client" ->
            IF \E e \in alive : playerId[e] = owner.id
            THEN owner.id
            ELSE ballColor
      [] OTHER -> "BLACK"

\* update_ball_color, in Update.
UpdateBallColor ==
    /\ stage = "Color" /\ ~panicked
    /\ UNCHANGED writes
    /\ UNCHANGED ghostVars
    /\ IF BallQuery
       THEN /\ ballColor' = Repaint(ballOwner)
            /\ painted' = TRUE
       ELSE UNCHANGED <<ballColor, painted>>
    /\ authChanged' = FALSE
    /\ dirty' = FALSE
    /\ stage' = "Connections"
    /\ UNCHANGED <<roster, hasRecord, controlled, spawned, alive, target, changed,
                   events, cmds, panicked, sig, resolved, assigns, newborn,
                   cascPeers, cascObjs>>
    /\ UNCHANGED <<connects, playerId, dist, ballOwner, authCmds, notes, lastIssued>>

\* The entity ids handle_connections gives the players of the new clients.
NewPlayer(c) ==
    spawned + (CHOOSE i \in 1..Cardinality(connects) : SetToSeq(connects)[i] = c)

\* handle_connections, in Update: a player entity per ConnectEvent, with
\* ControlledBy Single(client_id).
HandleConnections ==
    /\ stage = "Connections" /\ ~panicked
    /\ UNCHANGED writes
    /\ UNCHANGED ghostVars
    /\ LET new == {NewPlayer(c) : c \in connects}
           owner(e) == CHOOSE c \in connects : NewPlayer(c) = e
       IN
        /\ spawned' = spawned + Cardinality(connects)
        /\ alive' = alive \cup new
        /\ target' = [e \in Objects |-> IF e \in new THEN Single(owner(e)) ELSE target[e]]
        /\ playerId' = [e \in Objects |-> IF e \in new THEN owner(e) ELSE playerId[e]]
        /\ dist' = [e \in Objects |-> IF e \in new THEN SpawnDist ELSE dist[e]]
        /\ changed' = changed \cup new
        /\ assigns' = [e \in Objects |-> IF e \in new THEN 1 ELSE assigns[e]]
        /\ newborn' = newborn \cup new
    /\ connects' = {}
    /\ stage' = "ApplyUpdate"
    /\ UNCHANGED <<roster, hasRecord, controlled, events, cmds, panicked, sig,
                   resolved, cascPeers, cascObjs>>
    /\ UNCHANGED <<ballOwner, authChanged, authCmds, ballColor, notes, dirty,
                   painted, lastIssued>>

\* Variant of TransferCommand that keeps the current owner when it is a client.
TransferCommand_KeepsClient(cur, new) ==
    IF cur = new THEN [owner |-> cur, write |-> FALSE, note |-> <<>>]
    ELSE IF cur.kind = "Client" /\ new.kind = "Client"
         THEN [owner |-> cur, write |-> TRUE, note |-> <<<<cur, new>>>>]
         ELSE [owner |-> new, write |-> TRUE, note |-> <<<<cur, new>>>>]

\* Variant of TransferCommand that overwrites the variant tag and keeps the
\* payload of the prior value.
TransferCommand_Merges(cur, new) ==
    IF cur = new THEN [owner |-> cur, write |-> FALSE, note |-> <<>>]
    ELSE [owner |-> [kind |-> new.kind, id |-> cur.id],
          write |-> TRUE, note |-> <<<<cur, new>>>>]

\* The command transfer_authority(new) applied to an entity owned by cur: the
\* new owner, whether AuthorityPeer is written, and the notification.
TransferCommand(cur, new) ==
    IF cur = new
    THEN [owner |-> cur, write |-> FALSE, note |-> <<>>]
    ELSE [owner |-> new, write |-> TRUE, note |-> <<<<cur, new>>>>]

\* The queued transfer commands run in order when Update's commands apply.
ApplyTransfer ==
    /\ stage = "ApplyUpdate" /\ ~panicked
    /\ UNCHANGED writes
    /\ UNCHANGED ghostVars
    /\ authCmds # <<>>
    /\ LET r == TransferCommand(ballOwner, Head(authCmds)) IN
        /\ ballOwner' = r.owner
        /\ authChanged' = (authChanged \/ r.write)
        /\ notes' = notes \o r.note
        /\ dirty' = (dirty \/ r.owner # ballOwner)
    /\ authCmds' = Tail(authCmds)
    /\ UNCHANGED ctrlVars
    /\ UNCHANGED <<connects, playerId, dist, ballColor, painted, lastIssued>>

EndApplyUpdate ==
    /\ stage = "ApplyUpdate" /\ ~panicked
    /\ UNCHANGED writes
    /\ UNCHANGED ghostVars
    /\ authCmds = <<>>
    /\ stage' = "PostUpdate"
    /\ UNCHANGED <<roster, hasRecord, controlled, spawned, alive, target, changed,
                   events, cmds, panicked, sig, resolved, assigns, newborn,
                   cascPeers, cascObjs>>
    /\ UNCHANGED authVars

NextAuth ==
    \/ ReceiveApp
    \/ Movement
    \/ EndFixedUpdate
    \/ PolicyTransfer
    \/ TransferUnknown
    \/ TransferAuthority
    \/ UpdateBallColor
    \/ HandleConnections
    \/ ApplyTransfer
    \/ EndApplyUpdate
    \/ HandleControlledByUpdate
    \/ HandleClientDisconnect
    \/ ApplyCommand
    \/ EndFrame

SpecAuth == Init /\ [][NextAuth]_vars

\* The example's frame, its own systems only, with an application that also
\* hands over and removes the ControlledBy of existing entities in Update.
NextFull ==
    \/ ReceiveApp
    \/ Movement
    \/ EndFixedUpdate
    \/ HandOver
    \/ ClearTarget
    \/ TransferAuthority
    \/ UpdateBallColor
    \/ HandleConnections
    \/ ApplyTransfer
    \/ EndApplyUpdate
    \/ HandleControlledByUpdate
    \/ HandleClientDisconnect
    \/ ApplyCommand
    \/ EndFrame

SpecFull == Init /\ [][NextFull]_vars

\* ------------------------------------------------------------------ claims
TickBoundary == stage = "PreUpdate" /\ ~panicked

Pending(kind, id) == \E i \in 1..Len(cmds) : cmds[i] = DespawnCmd(kind, id)

SymDiff(S, T) == (S \ T) \cup (T \ S)

\* The step is one run of handle_controlled_by_update.
BookkeepingStep == stage = "PostUpdate" /\ stage' = "Last"

\* C1: once handle_client_disconnect has read the DisconnectEvent of a client
\* P that has a record, every entity that was in P's ControlledEntities is
\* destroyed or has its despawn queued, P's record goes only after them, and
\* when the queue is drained neither those entities nor P's record exist.
C1_DisconnectCascade ==
    \A p \in cascPeers :
        /\ \A e \in cascObjs[p] : e \notin alive \/ Pending("entity", e)
        /\ p \notin hasRecord \/ Pending("client", p)
        /\ p \notin hasRecord => cascObjs[p] \cap alive = {}
        /\ cmds = <<>> => p \notin hasRecord /\ cascObjs[p] \cap alive = {}

\* C2: at every tick boundary the ControlledEntities of every connected
\* client P is exactly the set of existing entities whose last resolved
\* ControlledBy included P.
C2_SetEqualsLastResolved ==
    TickBoundary =>
        \A p \in roster : controlled[p] = {e \in alive : p \in resolved[e]}

\* C3: a bookkeeping run over an entity whose ControlledBy is
\* AllExceptSingle(x) inserts it into the set of every connected client other
\* than x and does not insert it into the set of x.
C3_AllExceptSingleExcluded ==
    [][BookkeepingStep =>
        \A e \in changed :
            target[e].kind = "AllExceptSingle" =>
                \A p \in Peers :
                    (e \in controlled'[p] /\ e \notin controlled[p])
                        <=> (p \in roster /\ p # target[e].ids[1]
                             /\ e \notin controlled[p])]_vars

\* C4: when the ControlledBy of an entity that was assigned once and indexed
\* is removed (cleared, or the entity despawned), no connected client's
\* ControlledEntities contains the entity afterwards.
C4_RoundTripThroughHook ==
    [][\A e \in Objects :
        (target[e] # NoComp /\ target'[e] = NoComp
            /\ assigns[e] = 1 /\ e \notin changed)
            => \A q \in roster' : e \notin controlled'[q]]_vars

\* C4 witness: an entity assigned once has just lost its ControlledBy and the
\* hook took it out of a connected client's set.
C4_Witness ==
    \E e \in 1..spawned, p \in roster :
        /\ stage = "Update"
        /\ target[e] = NoComp /\ assigns[e] = 1
        /\ sig[p] = 1 /\ e \notin controlled[p]
        /\ \A o \in alive : o \notin controlled[p]

\* C5: after the bookkeeping run of the frame in which an entity was spawned
\* with ControlledBy Single(a), a connected, the entity is in a's
\* ControlledEntities and in no other connected client's.
C5_SingleIndexed ==
    stage = "Last" =>
        \A e \in newborn \cap alive, a \in roster :
            (target[e] = Single(a) /\ assigns[e] = 1)
                => /\ e \in controlled[a]
                   /\ \A q \in roster \ {a} : e \notin controlled[q]

\* C5 witness: two clients are connected and a newborn Single(A) entity has
\* been indexed.
C5_Witness ==
    /\ stage = "Last" /\ roster = Peers
    /\ \E e \in newborn \cap alive :
        /\ target[e] = Single("A") /\ assigns[e] = 1
        /\ e \in controlled["A"] /\ e \notin controlled["B"]

\* C6: a bookkeeping run over an entity whose ControlledBy is None, Single(p)
\* or Only(ids) adds the entity to exactly the named clients that are
\* connected, and no error is raised for the others.
C6_NamedPeersOnly ==
    [][BookkeepingStep =>
        /\ ~panicked'
        /\ \A e \in changed :
            target[e].kind \in {"None", "Single", "Only"} =>
                {p \in Peers : e \in controlled'[p]}
                    = {p \in Peers : e \in controlled[p]}
                        \cup (Range(target[e].ids) \cap roster)]_vars

\* C6 witness: Only([B, A]) was indexed while only A was connected.
C6_Witness ==
    /\ stage = "Last" /\ roster = {"A"} /\ "B" \notin hasRecord
    /\ \E e \in newborn \cap alive :
        /\ target[e] = Only(<<"B", "A">>)
        /\ e \in controlled["A"] /\ e \notin controlled["B"]

\* C7: every step raises exactly one change signal on a client's
\* ControlledEntities per entity that entered or left it: an insert of a
\* member and a removal of a non-member raise none.
C7_Idempotent ==
    [][\A p \in hasRecord \cap hasRecord' :
        sig'[p] = Cardinality(SymDiff(controlled[p], controlled'[p]))]_vars

\* C7 witness: Only([A, A]) has been indexed, two inserts of the same entity
\* into A's set, with one change signal.
C7_Witness ==
    /\ stage = "Last" /\ "A" \in roster
    /\ sig["A"] = 1
    /\ \E e \in newborn \cap alive :
        target[e] = Only(<<"A", "A">>) /\ controlled["A"] = {e}

\* A removal of a non-member happened: the entity with ControlledBy Single(A)
\* was despawned while A, connected, did not list it.
C7_RemoveNonMember ==
    /\ stage = "Update" /\ "A" \in roster /\ sig["A"] = 0
    /\ \E e \in 1..spawned : e \notin alive /\ assigns[e] = 1 /\ e \notin newborn

\* C8: an entity enters a client's ControlledEntities only in a bookkeeping
\* run that visits the entity because its ControlledBy was set or changed; a
\* client that connects later is not given it.
C8_SnapshotResolution ==
    [][\A p \in Peers, e \in Objects :
        (e \in controlled'[p] /\ e \notin controlled[p])
            => (BookkeepingStep /\ e \in changed)]_vars

\* C8 witness: an All or AllExceptSingle entity is listed by one connected
\* client and not by another one, after a bookkeeping run.
C8_Witness ==
    /\ stage = "Last"
    /\ \E e \in alive, p \in roster, q \in roster :
        /\ target[e].kind \in {"All", "AllExceptSingle"}
        /\ e \notin newborn
        /\ e \in controlled[q] /\ e \notin controlled[p]

\* The step applies the transfer_authority command at the head of the queue.
TransferStep == stage = "ApplyUpdate" /\ authCmds # <<>> /\ authCmds' = Tail(authCmds)

\* C9: a transfer_authority naming the current owner changes nothing and emits
\* no notification; a notification is emitted only by a step that changes the
\* owner value, and update_ball_color reacts only when the owner value changed
\* since it last ran, however often the same decision is issued again.
C9_SameOwnerNoOp ==
    /\ [][(TransferStep /\ Head(authCmds) = ballOwner)
            => (ballOwner' = ballOwner /\ notes' = notes
                /\ authChanged' = authChanged)]_vars
    /\ [][(notes' # notes /\ notes' # <<>>) => ballOwner' # ballOwner]_vars
    /\ [][(~painted /\ painted') => dirty]_vars

\* C9 witness: the proximity decision for the client that already owns the
\* ball was issued and applied, with no notification and no change flag.
C9_Witness ==
    /\ stage = "PostUpdate"
    /\ lastIssued = ballOwner /\ ballOwner \in Decisions
    /\ NearPlayers # {}
    /\ notes = <<>> /\ ~authChanged /\ ~dirty

\* C10: a transfer_authority naming another owner than the current one makes
\* it the owner and emits the one notification (old, new); after the transfers
\* of a frame have been applied the owner is the one the last of them named.
C10_LastWriteWins ==
    /\ [][(TransferStep /\ Head(authCmds) # ballOwner)
            => (ballOwner' = Head(authCmds)
                /\ notes' = Append(notes, <<ballOwner, Head(authCmds)>>))]_vars
    /\ []((stage \in {"PostUpdate", "Last", "Apply"} /\ lastIssued # NoTransfer)
            => ballOwner = lastIssued)

\* C10 witness: the transfers of one frame were applied, the owner changed
\* more than once, and the last one named a client.
C10_Witness ==
    /\ stage = "PostUpdate"
    /\ Len(notes) >= 2
    /\ notes[Len(notes)][2] = lastIssued
    /\ ballOwner = lastIssued /\ ballOwner.kind = "Client"

\* C11: every existing replicated entity (the ball, the players) carries
\* exactly one AuthorityPeer value, one of Server, Client(id) for a client id,
\* or None; no transfer leaves an entity with a value outside these or with a
\* mix of the old and the new one.
C11_SingleOwner ==
    /\ \A x \in {Ball} \cup alive :
        Cardinality({o \in AuthorityPeers : o = CurrentOwner(x)}) = 1
    /\ \A i \in 1..Len(notes) : notes[i][2] \in AuthorityPeers

\* C11 witness: the transfers of a frame are applied and the ball went from
\* one client to the other, while a player entity exists.
C11_Witness ==
    /\ stage = "PostUpdate" /\ alive # {}
    /\ \E p \in Peers :
        \E q \in Peers \ {p} :
            /\ CurrentOwner(Ball) = Client(q)
            /\ notes # <<>> /\ notes[Len(notes)] = <<Client(p), Client(q)>>

\* The step is a transfer_authority call on an entity that does not exist.
UnknownCall(x) == callee' = {x} /\ callee # {x} /\ x \notin alive /\ x # Ball

EvaluationStep == stage = "Update" /\ stage' = "Color" /\ decided' # NoTransfer

\* Is the owner o what the proximity rule asks for, given the players that
\* exist and their distances from the ball?
ProximityRule(o) ==
    IF \E e \in alive : playerId[e] # NoPlayer /\ dist[e] < 100
    THEN /\ o.kind = "Client"
         /\ \E e \in alive : playerId[e] = o.id /\ dist[e] < 100
    ELSE o = Server

\* C13: every evaluation of the proximity policy issues one transfer of the
\* ball, to the client of a player strictly closer than 100 when there is one
\* and to Server when there is none; when that transfer is the frame's last
\* word, the ball's owner after the frame's transfers is that client or Server.
C13_ProximityHandoff ==
    /\ [][EvaluationStep =>
            /\ authCmds' = Append(authCmds, decided')
            /\ ProximityRule(decided')]_vars
    /\ []((stage = "PostUpdate" /\ decided # NoTransfer /\ lastIssued = decided)
            => (ballOwner = decided /\ ProximityRule(ballOwner)))

\* C13 witness: two players, one at distance 80 and one out of range, and the
\* evaluation moved the ball from the server to the client of the near one.
C13_Witness ==
    /\ stage = "PostUpdate"
    /\ \E e \in alive :
        \E f \in alive \ {e} :
            /\ playerId[e] # NoPlayer /\ dist[e] = 80
            /\ playerId[f] # NoPlayer /\ dist[f] > 100
            /\ decided = Client(playerId[e]) /\ ballOwner = decided
            /\ notes = <<<<Server, decided>>>>

\* Both players are out of range (one of them on the edge) and the evaluation
\* gave the ball back to the server.
C13_RevertsToServer ==
    /\ stage = "PostUpdate"
    /\ Cardinality({e \in alive : playerId[e] # NoPlayer}) = 2
    /\ \E e \in alive : dist[e] = 100
    /\ decided = Server /\ ballOwner = Server
    /\ Len(notes) = 1 /\ notes[1][1].kind = "Client"

CascadeStep == stage = "Last" /\ ~panicked

\* C15: a DisconnectEvent for a client whose client entity does not exist
\* makes handle_client_disconnect despawn nothing and raise no error, with
\* every record and set left as it was; and a queued despawn of an entity that
\* an earlier command of the same frame has despawned is a no-op, not an
\* error.
C15_AbsentStateNoOp ==
    /\ [][(CascadeStep /\ events # <<>>
                /\ \A i \in 1..Len(events) : events[i] \notin hasRecord)
            => (~panicked' /\ cmds' = <<>>
                /\ hasRecord' = hasRecord /\ controlled' = controlled
                /\ alive' = alive)]_vars
    /\ [][(stage = "Apply" /\ cmds # <<>> /\ Head(cmds).kind = "entity"
                /\ Head(cmds).id \notin alive)
            => (~panicked' /\ cmds' = Tail(cmds)
                /\ hasRecord' = hasRecord /\ controlled' = controlled
                /\ alive' = alive)]_vars

\* Two clients that both listed one entity disconnected in the same frame and
\* the entity's second despawn is at the head of the queue.
C15_SecondDespawn ==
    /\ stage = "Apply" /\ cascPeers = Peers
    /\ cmds # <<>> /\ Head(cmds).kind = "entity" /\ Head(cmds).id \notin alive
    /\ Head(cmds).id \in cascObjs["A"] \cap cascObjs["B"]

\* C16: at every tick boundary every entity listed in the ControlledEntities
\* of an existing client entity exists.
C16_NoDanglingMembers ==
    TickBoundary => \A p \in hasRecord : controlled[p] \subseteq alive

\* A tick boundary at which the set of a connected client lists an entity that
\* was despawned after its ControlledBy had been changed away from the client.
C16_DanglingAfterChange ==
    /\ TickBoundary
    /\ \E p \in roster, e \in 1..spawned :
        e \in controlled[p] /\ e \notin alive /\ assigns[e] = 2

\* C17: the cascade of a client P despawns only entities whose current
\* ControlledBy includes P: an entity whose ControlledBy is Single(Q), changed
\* from Single(P), is not queued for despawn by the cascade of P.
C17_OnlyCurrentlyControlled ==
    \A e \in alive :
        (Pending("entity", e) /\ target[e].kind = "Single")
            => \E p \in cascPeers : e \in cascObjs[p] /\ target[e] = Single(p)

\* The cascade of A has queued the despawn of an entity whose ControlledBy is
\* Single(B) and which B, connected, lists.
C17_ReassignedEntityQueued ==
    /\ stage = "Apply" /\ cascPeers = {"A"} /\ "B" \in roster
    /\ \E e \in alive :
        /\ target[e] = Single("B") /\ e \in controlled["B"]
        /\ resolved[e] = {"B"}
        /\ Pending("entity", e)

\* C18: a step that applies a transfer_authority command changes no
\* ControlledBy and no ControlledEntities; a step that sets, changes or
\* removes a ControlledBy, or inserts into or removes from a
\* ControlledEntities, changes no AuthorityPeer, queues no transfer and emits
\* no authority notification.
C18_AuthorityControlIndependent ==
    /\ [][TransferStep => (target' = target /\ controlled' = controlled)]_vars
    /\ [][(target' # target \/ controlled' # controlled)
            => /\ ballOwner' = ballOwner
               /\ \A x \in alive \cap alive' : CurrentOwner(x)' = CurrentOwner(x)
               /\ authChanged' = authChanged
               /\ authCmds' = authCmds
               /\ notes' = notes]_vars

\* C18 witness: a client was given the ball by a transfer, the ControlledBy
\* of its player entity has just been removed and the hook took the player out
\* of the client's set, and the ball is still the client's.
C18_Witness ==
    /\ stage = "Update"
    /\ \E p \in roster, e \in alive :
        /\ ballOwner = Client(p) /\ playerId[e] = p
        /\ target[e] = NoComp /\ sig[p] = 1 /\ e \notin controlled[p]

====
